---- MODULE Spec2Model ----
(***************************************************************************)
(* wpp dev mode (wpp.go, func main, the `if OptDevmode` block): the event  *)
(* loop that multiplexes source-tree batches, template batches, the build  *)
(* completion channel `ready` and the interrupt, the build goroutine it    *)
(* spawns, and the two HTTP handlers (index, reload).                      *)
(***************************************************************************)
EXTENDS Naturals, Sequences, FiniteSets, TLC

\* ---------------------------------------------------------------- bounds
MaxEdits == 2
MaxBatch == 1
MaxConns == 2

\* One build for the start-up template batch plus one per later edit.
MaxBuilds == 1 + MaxEdits
BuildIds == 1..MaxBuilds
ConnIds == 1..MaxConns

VARIABLES
    OptOutfile,     \* TRUE when -outfile names a file
    OptDevport,     \* the -devport value (0 disables serving)
    OptTemplate,    \* TRUE when -template names a file
    OptIgnore,      \* the -ignore text
    isReady, pending, interrupted, served,
    html,           \* the template text the loop holds
    mainpc,         \* "start" (lines 115-159), "loop", or "exited" once main has returned
                    \* and the process is gone
    builds,         \* the build goroutines, by dispatch number
    syncing,        \* some goroutine has sent on ready and is in its deferred file.Sync()
    file,           \* bytes of the outfile, a sequence of written chunks
    stdout,         \* TRUE once a part of a render has been written to os.Stdout
    tmplFile,       \* the template file on disk
    srcAvail,       \* a batch is waiting on the updates channel
    tmplAvail,      \* a batch is waiting on the tmplUpdate channel
    httpUp,         \* http.ListenAndServe is serving
    ProgWebSocket,  \* 0 is nil, otherwise the connection the global refers to
    conns,          \* the state of every connection an upgrade has made
    handshakes,     \* upgrades that have made a connection so far
    dispatched,     \* history: builds dispatched
    batches,        \* history: change batches received by the loop
    completions,    \* history: completion signals received by the loop
    edits,          \* history: edits of the source tree and the template file
    changesSince    \* history: relevant changes received since the last dispatch

\* getand/install.go, a program of its own
VARIABLES
    flagNoExecute,  \* the -noexecute flag
    cwd,            \* the working directory of the process
    done,           \* the buffered channel `done`, oldest value first
    result,         \* the 1-buffered channel `result` of every dependency goroutine
    co,             \* the dependency the checkout goroutine received (0: none)
    coError,        \* `hasError` of the checkout goroutine (line 103)
    copc,           \* where the checkout goroutine is
    deppc,          \* where every dependency goroutine is
    instpc,         \* where main of install.go is
    received,       \* `i` of main's receive loop
    instError,      \* `hasError` of main (line 198)
    goInstall,      \* the final "go install" of the package
    failed          \* history: the dependencies a command or a chdir into `dir` failed for

cfg == <<OptOutfile, OptDevport, OptTemplate, OptIgnore>>
loopv == <<isReady, pending, interrupted, html, mainpc>>
envv == <<tmplFile, srcAvail, tmplAvail, edits>>
wsv == <<ProgWebSocket, conns, handshakes>>
histv == <<dispatched, batches, completions, changesSince>>
wppv == <<cfg, loopv, envv, wsv, histv, served, builds, syncing, file, stdout, httpUp>>
instv == <<flagNoExecute, cwd, done, result, co, coError, copc, deppc, instpc, received, instError, goInstall, failed>>
vars == <<wppv, instv>>

\* ------------------------------------------------------------ data model
DevportDefault == 8082
ProgHtmlTemplate == "A"
TemplateTexts == {"A", "B", "BAD"}
\* what a read of html that overlaps a write can give besides the two texts:
\* the pointer of one string with the length of the other
Torn == "TORN"
Missing == "MISSING"

\* template.New("html").Parse(html) succeeds
Parses(t) == t \in {"A", "B", "", "TORN"}

\* tmpl.Execute(out, result): the writes a render of template t makes, in
\* order (the source bytes spliced into the two slots are not told apart)
Render(t) ==
    IF t = "" THEN <<>>
    ELSE << [tmpl |-> t, slot |-> "CSS"], [tmpl |-> t, slot |-> "Javascript"] >>

\* loadHtml: the text, or "" with an error
loadHtml(f) == IF f = Missing THEN [text |-> "", err |-> TRUE]
               ELSE [text |-> f, err |-> FALSE]

\* filewatch.Update as the loop reads it
Names == {"a.css", "b.JS", "c.txt", "skip.css", "sub"}
Updates == [WasRemoved : {FALSE}, name : Names] \cup [WasRemoved : {TRUE}, name : {"a.css"}]
\* u.Prev.IsDir()
IsDir(name) == name = "sub"
\* the batches the watcher sends: each path at most once; the loop's fold
\* over a batch does not depend on the order, so one order per set of paths
\* is drawn
WalkOrder(name) == CASE name = "a.css" -> 1
                     [] name = "b.JS" -> 2
                     [] name = "c.txt" -> 3
                     [] name = "skip.css" -> 4
                     [] name = "sub" -> 5
Batches ==
    UNION {{us \in [1..n -> Updates] :
                \A k \in 1..(n - 1) : WalkOrder(us[k].name) < WalkOrder(us[k + 1].name)}
           : n \in 0..MaxBatch}

\* strings.ToLower(filepath.Ext(name))
Ext(name) == CASE name = "a.css" -> ".css"
               [] name = "b.JS" -> ".JS"
               [] name = "c.txt" -> ".txt"
               [] name = "skip.css" -> ".css"
               [] name = "sub" -> ""
ToLower(e) == IF e = ".JS" THEN ".js" ELSE e

\* regexp.Compile(OptIgnore): "skip" compiles, "(" does not, "" is not compiled
IgnoreTexts == {"", "skip", "("}
ignoreCompiled(o) == o = "skip"
MatchString(o, name) == o = "skip" /\ name = "skip.css"

\* one iteration of `for _, u := range us`
UpdateSetsPending(u, o) ==
    /\ ~IsDir(u.name)
    /\ ~u.WasRemoved
    /\ ~(ignoreCompiled(o) /\ MatchString(o, u.name))
    /\ ToLower(Ext(u.name)) \in {".js", ".css"}

\* `for _, u := range us` from the k-th update on, entered with pending = p
RECURSIVE RangeUpdates(_, _, _, _)
RangeUpdates(p, us, o, k) ==
    IF k > Len(us) THEN p
    ELSE IF ~IsDir(us[k].name) /\ ~us[k].WasRemoved
    THEN IF ignoreCompiled(o) /\ MatchString(o, us[k].name)
         THEN RangeUpdates(p, us, o, k + 1)
         ELSE RangeUpdates(p \/ ToLower(Ext(us[k].name)) = ".js"
                             \/ ToLower(Ext(us[k].name)) = ".css", us, o, k + 1)
    ELSE RangeUpdates(p, us, o, k + 1)

\* pending after the whole `case us := <-updates` body
FoldPendingOverwrite(p, us, o) == \E k \in 1..Len(us) : UpdateSetsPending(us[k], o)
FoldPendingNoIgnore(p, us, o) == RangeUpdates(p, us, "", 1)
FoldPending(p, us, o) == RangeUpdates(p, us, o, 1)

\* `pending = true` of `case <-tmplUpdate`
TmplPending(p) == TRUE

\* the total of stimuli the loop has received
stimuli == batches + completions

\* `if isReady && pending && !interrupted`
ShouldDispatchNoReady(r, p, i) == p /\ ~i
ShouldDispatchWrongFlag(r, p, i) == r /\ p /\ i
ShouldDispatch(r, p, i) == r /\ p /\ ~i

\* `isReady = false` of the dispatch
ReadyStays(r) == r
ReadyAfterDispatch(r) == FALSE

\* `pending = false` of the dispatch
KeepPending(p) == p
PendingAfterDispatch(p) == FALSE

\* `for !interrupted`, evaluated with the flag an iteration left
LoopCondAlways(i) == TRUE
LoopCond(i) == ~i

\* the command lines considered: serving with and without a template file,
\* -devport 0, and no outfile
Configs ==
    { [outfile |-> TRUE, devport |-> DevportDefault, template |-> TRUE, ignore |-> "skip"],
      [outfile |-> TRUE, devport |-> DevportDefault, template |-> FALSE, ignore |-> ""],
      [outfile |-> TRUE, devport |-> 0, template |-> TRUE, ignore |-> "("],
      [outfile |-> FALSE, devport |-> DevportDefault, template |-> FALSE, ignore |-> "skip"] }

\* the port the build passes to preprocess
BuildPort == IF OptOutfile THEN OptDevport ELSE 0

NoBuild == [pc |-> "none", err |-> FALSE, sync |-> FALSE, tmpl |-> "", wrote |-> 0, prev |-> <<>>,
            kind |-> "none", reload |-> "none", old |-> {}]
\* a goroutine as `go (func() {...})()` starts it; prev and kind are history:
\* the bytes of the outfile at the dispatch (kept until preprocess has
\* succeeded), and what led to the dispatch (kept until the first step);
\* reload is what became of the "reload" message of lines 245-254; old holds
\* the texts the loop has overwritten in html since the dispatch, while the
\* goroutine has not read html yet
NewBuild(k) == [NoBuild EXCEPT !.pc = IF OptOutfile THEN "truncate" ELSE "preprocess",
                               !.prev = file, !.kind = k]
DoneBuild == [NoBuild EXCEPT !.pc = "done"]

\* where a build goes when a step fails: on to `ready <- struct{}{}`
AfterErrorReturn == "done"
AfterError == "send"

\* goroutines whose send on ready has not been received: those on their way
\* to it, and those the end of the process took ("killed")
Unsignalled == {b \in BuildIds : builds[b].pc \notin {"none", "done"}}
\* build goroutines known to exist: those yet to send, and one for the
\* goroutines past their send and still in the deferred Sync
Alive == Cardinality({b \in Unsignalled : builds[b].pc # "killed"}) + (IF syncing THEN 1 ELSE 0)

\* len(dependencies)
deplen == 2
Deps == 1..deplen
\* the directory getand/install was started in, and `dir` of a dependency
Pwd == 0
Dir(d) == d

\* install.go before its goroutines have taken a step
InstallerStart(n) ==
    /\ flagNoExecute = n
    /\ cwd = Pwd
    /\ done = <<>>
    /\ result = [d \in Deps |-> <<>>]
    /\ co = 0
    /\ coError = FALSE
    /\ copc = "range"
    /\ deppc = [d \in Deps |-> "clone"]
    /\ instpc = "receive"
    /\ received = 0
    /\ instError = FALSE
    /\ goInstall = "none"
    /\ failed = {}

WppInit ==
    /\ \E c \in Configs :
          /\ OptOutfile = c.outfile
          /\ OptDevport = c.devport
          /\ OptTemplate = c.template
          /\ OptIgnore = c.ignore
    /\ isReady = TRUE
    /\ pending = FALSE
    /\ interrupted = FALSE
    /\ served = FALSE
    /\ tmplFile = "A"
    /\ html = IF OptTemplate THEN loadHtml(tmplFile).text ELSE ProgHtmlTemplate
    /\ mainpc = "start"
    /\ builds = [b \in BuildIds |-> NoBuild]
    /\ syncing = FALSE
    /\ file = <<>>
    /\ stdout = FALSE
    /\ srcAvail = TRUE
    /\ tmplAvail = FALSE
    /\ httpUp = FALSE
    /\ ProgWebSocket = 0
    /\ conns = [c \in ConnIds |-> "none"]
    /\ handshakes = 0
    /\ dispatched = 0
    /\ batches = 0
    /\ completions = 0
    /\ edits = 0
    /\ changesSince = 0

\* wpp; getand/install is not running
Init == WppInit /\ InstallerStart(FALSE)

\* ------------------------------------------------------- the event loop
\* whether tmplUpdate holds a batch when the loop starts (t: a template file
\* is configured): the first batch of the template file's watcher, or the one
\* batch put into the channel of lines 147-148
NoPreloadedBatch(t) == t
InitialTmplBatch(t) == TRUE

\* lines 132-159: the first batch of the source watcher is received and
\* dropped, tmplUpdate is set up, and the loop is entered
Start ==
    /\ mainpc = "start"
    /\ srcAvail
    /\ srcAvail' = FALSE
    /\ tmplAvail' = (tmplAvail \/ InitialTmplBatch(OptTemplate))
    /\ mainpc' = "loop"
    /\ UNCHANGED <<instv, cfg, isReady, pending, interrupted, html, tmplFile, edits, wsv, histv,
                   served, builds, syncing, file, stdout, httpUp>>

\* the history counters of changes saturate at "two or more"
Cap(n) == IF n > 2 THEN 2 ELSE n

\* the history of a dispatch: made in the iteration of a change (the loop was
\* idle), or in the iteration of a completion, for one or for several changes
\* received during the build; "spurious" when no change was waiting
DispatchKind(ev, n) ==
    IF n = 0 THEN "spurious"
    ELSE IF ev # "ready" THEN "idle"
    ELSE IF n = 1 THEN "follow1" ELSE "followMany"

\* The tail of one iteration (lines 196-261) and the loop condition: r, p, i,
\* h are isReady, pending, interrupted and html as the select case ev left
\* them, bs the goroutines, chg the relevant changes this iteration received.
LoopTail(ev, r, p, i, h, bs, chg) ==
    /\ interrupted' = i
    /\ html' = h
    /\ mainpc' = IF LoopCond(i) THEN "loop" ELSE "exited"
    /\ batches' = IF ev \in {"source", "template"} THEN batches + 1 ELSE batches
    /\ completions' = IF ev = "ready" THEN completions + 1 ELSE completions
    /\ IF ShouldDispatch(r, p, i)
       THEN /\ dispatched < MaxBuilds
            /\ isReady' = ReadyAfterDispatch(r)
            /\ pending' = PendingAfterDispatch(p)
            /\ dispatched' = dispatched + 1
            /\ builds' = [bs EXCEPT ![dispatched + 1] = NewBuild(DispatchKind(ev, changesSince + chg))]
            /\ changesSince' = 0
       ELSE /\ isReady' = r
            /\ pending' = p
            /\ dispatched' = dispatched
            /\ builds' = bs
            /\ changesSince' = Cap(changesSince + chg)

\* case us := <-updates
LoopUpdates(us) ==
    /\ mainpc = "loop"
    /\ srcAvail
    /\ srcAvail' = FALSE
    /\ LoopTail("source", isReady, FoldPending(pending, us, OptIgnore), interrupted, html, builds,
                IF FoldPending(FALSE, us, OptIgnore) THEN 1 ELSE 0)
    /\ UNCHANGED <<instv, cfg, wsv, tmplFile, tmplAvail, edits,
                   served, syncing, file, stdout, httpUp>>

\* `html, err = loadHtml(OptTemplate)` with goroutines that have not called
\* preprocess yet: nothing orders this write and their read of html
Unread(bs, h) ==
    [b \in BuildIds |-> IF bs[b].pc \in {"truncate", "seek", "preprocess"} /\ h # html
                        THEN [bs[b] EXCEPT !.old = @ \cup {html}]
                        ELSE bs[b]]

\* case <-tmplUpdate
LoopTmplUpdate ==
    /\ mainpc = "loop"
    /\ tmplAvail
    /\ tmplAvail' = FALSE
    /\ LoopTail("template", isReady, TmplPending(pending), interrupted,
                IF OptTemplate THEN loadHtml(tmplFile).text ELSE html,
                IF OptTemplate THEN Unread(builds, loadHtml(tmplFile).text) ELSE builds, 1)
    /\ UNCHANGED <<instv, cfg, wsv, tmplFile, srcAvail, edits,
                   served, syncing, file, stdout, httpUp>>

\* case <-ready, together with the sender's `ready <- struct{}{}` (unbuffered);
\* the sender goes on to its deferred file.Sync(), if it registered one
LoopReady(b) ==
    /\ mainpc = "loop"
    /\ builds[b].pc = "send"
    /\ syncing' = (syncing \/ builds[b].sync)
    /\ LoopTail("ready", TRUE, pending, interrupted, html, [builds EXCEPT ![b] = DoneBuild], 0)
    /\ UNCHANGED <<instv, cfg, wsv, envv, served, file, stdout, httpUp>>

\* the goroutines as the end of the process leaves them
Killed == [b \in BuildIds |-> IF builds[b].pc \in {"none", "done"} THEN builds[b]
                              ELSE [NoBuild EXCEPT !.pc = "killed"]]

\* case <-interrupt: an os.Interrupt has been delivered to the channel.  The
\* iteration ends, the loop condition fails, and main returns after
\* fmt.Println() and vlog (deferred close(done), file.Close()): the process
\* ends and every goroutine with it.
LoopInterrupt ==
    /\ mainpc = "loop"
    /\ LoopTail("interrupt", isReady, pending, TRUE, html,
                IF LoopCond(TRUE) THEN builds ELSE Killed, 0)
    /\ syncing' = (LoopCond(TRUE) /\ syncing)
    /\ UNCHANGED <<instv, cfg, wsv, envv, served, file, stdout, httpUp>>

Running == mainpc # "exited"

\* ---------------------------------------------------- the build goroutine
Fail(b) == [builds[b] EXCEPT !.err = TRUE, !.pc = AfterError, !.kind = "none", !.old = {}]

\* file.Truncate(0)
BuildTruncate(b, ok) ==
    /\ Running
    /\ builds[b].pc = "truncate"
    /\ IF ok
       THEN /\ file' = <<>>
            /\ builds' = [builds EXCEPT ![b].pc = "seek", ![b].kind = "none"]
       ELSE /\ file' = file
            /\ builds' = [builds EXCEPT ![b] = Fail(b)]
    /\ UNCHANGED <<instv, cfg, loopv, envv, wsv, histv, served, syncing, stdout, httpUp>>

\* file.Seek(0, 0), and on success the deferred file.Sync() is registered
BuildSeek(b, ok) ==
    /\ Running
    /\ builds[b].pc = "seek"
    /\ builds' = [builds EXCEPT ![b] =
                    IF ok THEN [builds[b] EXCEPT !.sync = TRUE, !.pc = "preprocess"]
                    ELSE Fail(b)]
    /\ UNCHANGED <<instv, cfg, loopv, envv, wsv, histv, served, syncing, file, stdout, httpUp>>

\* the values the read of html at the call of preprocess (line 223) can give:
\* the text html holds, and, when the loop has written html since the
\* dispatch, a text it has overwritten or a torn string
HtmlRead(b) == IF builds[b].old = {} THEN {html} ELSE builds[b].old \cup {html, Torn}

\* preprocess(inputdir, html, out, port), up to tmpl.Execute: html is read at
\* the call (h) and parsed, filepath.Walk gathers the sources (ok: it succeeds)
BuildPreprocess(b, ok, h) ==
    /\ Running
    /\ builds[b].pc = "preprocess"
    /\ ~Parses(h) => ~ok
    /\ IF ~ok
       THEN /\ builds' = [builds EXCEPT ![b] = Fail(b)]
       ELSE /\ builds' = [builds EXCEPT ![b].tmpl = h, ![b].kind = "none", ![b].prev = <<>>, ![b].old = {},
                                        ![b].pc = IF Render(h) = <<>> THEN "post" ELSE "write"]
    /\ UNCHANGED <<instv, cfg, loopv, envv, wsv, histv, served, syncing, file, stdout, httpUp>>

\* tmpl.Execute(out, result): one Write per step; after the last one
\* preprocess returns nil
BuildWrite(b, ok) ==
    /\ Running
    /\ builds[b].pc = "write"
    /\ LET out == Render(builds[b].tmpl)
           n == builds[b].wrote
           f == IF OptOutfile THEN Append(file, out[n + 1]) ELSE file
       IN IF ~ok
          THEN /\ builds' = [builds EXCEPT ![b] = Fail(b)]
               /\ UNCHANGED <<file, stdout>>
          ELSE /\ file' = f
               /\ stdout' = (stdout \/ ~OptOutfile)
               /\ builds' = [builds EXCEPT ![b].wrote = n + 1,
                                            ![b].pc = IF n + 1 = Len(out) THEN "post" ELSE "write"]
    /\ UNCHANGED <<instv, cfg, loopv, envv, wsv, histv, served, syncing, httpUp>>

\* the connections whose reload handler is still in its read loop
OpenConns == {c \in ConnIds : conns[c] = "open"}

\* what ProgWebSocket.WriteMessage did, on a connection in state st
WriteOutcome(ok, st) == IF ok THEN "sent" ELSE IF st = "open" THEN "werr" ELSE "wclosed"

\* `served = true`, line 227
NeverServed(sv) == sv
StartServing(sv) == TRUE

\* lines 225-257: after a successful preprocess
BuildPost(b, ok) ==
    /\ Running
    /\ builds[b].pc = "post"
    /\ IF BuildPort > 0
       THEN IF ~served
            THEN \* handlers registered, server goroutine started, browser opened
                 /\ served' = StartServing(served)
                 /\ httpUp' = ok
                 /\ builds' = [builds EXCEPT ![b].pc = "send"]
                 /\ UNCHANGED wsv
            ELSE IF ProgWebSocket # 0
            THEN \* "reload" written to ProgWebSocket: the write fails on a
                 \* connection that is closed, and may fail on an open one
                 /\ ok => conns[ProgWebSocket] = "open"
                 /\ builds' = [builds EXCEPT
                        ![b].pc = "send",
                        ![b].reload = WriteOutcome(ok, conns[ProgWebSocket])]
                 /\ UNCHANGED <<served, httpUp, wsv>>
            ELSE \* logged that ProgWebSocket is nil
                 /\ ok
                 /\ builds' = [builds EXCEPT ![b].pc = "send", ![b].reload = "nil"]
                 /\ UNCHANGED <<served, httpUp, wsv>>
       ELSE \* fmt.Println()
            /\ ok
            /\ builds' = [builds EXCEPT ![b].pc = "send"]
            /\ UNCHANGED <<served, httpUp, wsv>>
    /\ UNCHANGED <<instv, cfg, loopv, envv, histv, syncing, file, stdout>>

\* the deferred file.Sync() of the goroutines whose send on ready has completed:
\* the last of them ends
BuildSync ==
    /\ Running
    /\ syncing
    /\ syncing' = FALSE
    /\ UNCHANGED <<instv, cfg, loopv, envv, wsv, histv, served, builds, file, stdout, httpUp>>

BuildStep(b) ==
    \/ \E ok \in BOOLEAN : BuildTruncate(b, ok)
    \/ \E ok \in BOOLEAN : BuildSeek(b, ok)
    \/ \E ok \in BOOLEAN, h \in HtmlRead(b) : BuildPreprocess(b, ok, h)
    \/ \E ok \in BOOLEAN : BuildWrite(b, ok)
    \/ \E ok \in BOOLEAN : BuildPost(b, ok)

\* ------------------------------------------------------ the HTTP handlers
\* what a reader gets from bytes f: all the writes of some render (the empty
\* file is the whole render of the empty template), or a proper prefix of one
IsRender(f) == \E t \in TemplateTexts \cup {""} : Parses(t) /\ f = Render(t)
Served(f) == IF IsRender(f) THEN "render" ELSE "partial"

\* index: http.ServeFile(w, r, OptOutfile) sends the bytes the outfile holds
\* at that moment, Served(file); no state of the program changes
IndexServe ==
    /\ Running
    /\ httpUp
    /\ OptOutfile
    /\ UNCHANGED vars

\* reload: ProgWebSocket, err = upgrader.Upgrade(w, r, nil), which returns a
\* new connection, or nil and an error (the handler then returns)
ReloadUpgrade(ok) ==
    /\ Running
    /\ httpUp
    /\ IF ok
       THEN /\ handshakes < MaxConns
            /\ handshakes' = handshakes + 1
            /\ ProgWebSocket' = handshakes + 1
            /\ conns' = [conns EXCEPT ![handshakes + 1] = "open"]
       ELSE /\ ProgWebSocket # 0
            /\ ProgWebSocket' = 0
            /\ UNCHANGED <<conns, handshakes>>
    /\ UNCHANGED <<instv, cfg, loopv, envv, histv, served, builds, syncing, file, stdout, httpUp>>

\* ReadMessage returns a close error: the handler returns and its deferred
\* Close runs
ReloadClosed(c) ==
    /\ Running
    /\ conns[c] = "open"
    /\ conns' = [conns EXCEPT ![c] = "closed"]
    /\ UNCHANGED <<instv, cfg, loopv, envv, histv, served, builds, syncing, file, stdout, httpUp,
                   ProgWebSocket, handshakes>>

\* ---------------------------------------------------------- environment
EditSource ==
    /\ Running
    /\ edits < MaxEdits
    /\ edits' = edits + 1
    /\ srcAvail' = TRUE
    /\ UNCHANGED <<instv, cfg, loopv, wsv, histv, tmplFile, tmplAvail,
                   served, builds, syncing, file, stdout, httpUp>>

EditTemplate(t) ==
    /\ Running
    /\ OptTemplate
    /\ edits < MaxEdits
    /\ t # tmplFile
    /\ tmplFile' = t
    /\ edits' = edits + 1
    /\ tmplAvail' = TRUE
    /\ UNCHANGED <<instv, cfg, loopv, wsv, histv, srcAvail,
                   served, builds, syncing, file, stdout, httpUp>>

\* ------------------------------------------------------- specifications
Loop ==
    \/ Start
    \/ \E us \in Batches : LoopUpdates(us)
    \/ LoopTmplUpdate
    \/ \E b \in BuildIds : LoopReady(b)
    \/ LoopInterrupt

Env ==
    \/ EditSource
    \/ \E t \in TemplateTexts \cup {Missing} : EditTemplate(t)

Http ==
    \/ IndexServe
    \/ \E ok \in BOOLEAN : ReloadUpgrade(ok)
    \/ \E c \in ConnIds : ReloadClosed(c)

Next ==
    \/ Loop
    \/ \E b \in BuildIds : BuildStep(b)
    \/ BuildSync
    \/ Env
    \/ Http

Spec == Init /\ [][Next]_vars

\* The Go scheduler runs every runnable goroutine, and select takes a case
\* that stays ready: a build goroutine goes on until it blocks in its send on
\* ready, and that send is received unless the loop has left.
FairSpec ==
    /\ Spec
    /\ WF_vars(\E b \in BuildIds : BuildStep(b))
    /\ WF_vars(\E b \in BuildIds : LoopReady(b))

\* main goes on to its loop, and select takes the tmplUpdate case while a
\* batch stays in that channel
FairLoopSpec ==
    /\ Spec
    /\ WF_vars(Start)
    /\ WF_vars(LoopTmplUpdate)

\* ------------------------------------------------------ getand/install.go
InstRunning == instpc # "exited"

\* `done <- e`
DropDone(q, e) == q
SendDone(q, e) == Append(q, e)

\* os.Chdir(pwd) of line 136
StayInDir(dir) == dir
ChdirPwd(dir) == Pwd

\* a dependency goroutine gets or clones its repository (lines 150-178); with
\* -noexecute no command runs
DepClone(d, ok) ==
    /\ InstRunning
    /\ deppc[d] = "clone"
    /\ flagNoExecute => ok
    /\ IF ok
       THEN /\ deppc' = [deppc EXCEPT ![d] = "handoff"]
            /\ done' = done
            /\ failed' = failed
       ELSE /\ deppc' = [deppc EXCEPT ![d] = "returned"]
            /\ done' = SendDone(done, TRUE)
            /\ failed' = failed \cup {d}
    /\ UNCHANGED <<wppv, flagNoExecute, cwd, result, co, coError, copc, instpc, received, instError, goInstall>>

\* the send on the unbuffered channel `checkout` (lines 181-184) and the
\* receive of `for co := range checkout` (line 80) happen together
Handoff(d) ==
    /\ InstRunning
    /\ deppc[d] = "handoff"
    /\ copc = "range"
    /\ co' = d
    /\ copc' = "chdir"
    /\ deppc' = [deppc EXCEPT ![d] = "result"]
    /\ UNCHANGED <<wppv, flagNoExecute, cwd, done, result, coError, instpc, received, instError, goInstall, failed>>

\* os.Chdir(dir), lines 96-103
CoChdir(ok) ==
    /\ InstRunning
    /\ copc = "chdir"
    /\ IF ok
       THEN /\ cwd' = Dir(co)
            /\ coError' = FALSE
            /\ copc' = "checkout"
            /\ UNCHANGED <<result, co, failed>>
       ELSE /\ result' = [result EXCEPT ![co] = Append(@, TRUE)]
            /\ copc' = "range"
            /\ co' = 0
            /\ failed' = failed \cup {co}
            /\ UNCHANGED <<cwd, coError>>
    /\ UNCHANGED <<wppv, flagNoExecute, done, deppc, instpc, received, instError, goInstall>>

\* cofn(co.Branch), lines 104-112
CoCheckout(ok) ==
    /\ InstRunning
    /\ copc = "checkout"
    /\ flagNoExecute => ok
    /\ coError' = ~ok
    /\ failed' = IF ok THEN failed ELSE failed \cup {co}
    /\ copc' = IF ok THEN "build" ELSE "chdirback"
    /\ UNCHANGED <<wppv, flagNoExecute, cwd, done, result, co, deppc, instpc, received, instError, goInstall>>

\* co.BuildFunc() or "go install", lines 114-133
CoBuild(ok) ==
    /\ InstRunning
    /\ copc = "build"
    /\ flagNoExecute => ok
    /\ coError' = ~ok
    /\ failed' = IF ok THEN failed ELSE failed \cup {co}
    /\ copc' = "chdirback"
    /\ UNCHANGED <<wppv, flagNoExecute, cwd, done, result, co, deppc, instpc, received, instError, goInstall>>

\* os.Chdir(pwd), lines 135-138; flog ends the process
CoChdirBack(ok) ==
    /\ InstRunning
    /\ copc = "chdirback"
    /\ IF ok
       THEN /\ cwd' = ChdirPwd(cwd)
            /\ copc' = "reply"
            /\ instpc' = instpc
       ELSE /\ instpc' = "exited"
            /\ UNCHANGED <<cwd, copc>>
    /\ UNCHANGED <<wppv, flagNoExecute, done, result, co, coError, deppc, received, instError, goInstall, failed>>

\* co.hasError <- hasError, line 140
CoReply ==
    /\ InstRunning
    /\ copc = "reply"
    /\ result' = [result EXCEPT ![co] = Append(@, coError)]
    /\ copc' = "range"
    /\ co' = 0
    /\ UNCHANGED <<wppv, flagNoExecute, cwd, done, coError, deppc, instpc, received, instError, goInstall, failed>>

\* the dependency goroutine receives its result and sends on done, lines 186-194
DepResult(d) ==
    /\ InstRunning
    /\ deppc[d] = "result"
    /\ result[d] # <<>>
    /\ done' = SendDone(done, Head(result[d]))
    /\ result' = [result EXCEPT ![d] = Tail(@)]
    /\ deppc' = [deppc EXCEPT ![d] = "returned"]
    /\ UNCHANGED <<wppv, flagNoExecute, cwd, co, coError, copc, instpc, received, instError, goInstall, failed>>

\* one receive of main's loop, lines 199-204
MainReceive ==
    /\ instpc = "receive"
    /\ received < deplen
    /\ done # <<>>
    /\ instError' = (instError \/ Head(done))
    /\ done' = Tail(done)
    /\ received' = received + 1
    /\ UNCHANGED <<wppv, flagNoExecute, cwd, result, co, coError, copc, deppc, instpc, goInstall, failed>>

\* the end of the loop, lines 205-207
MainCheck ==
    /\ instpc = "receive"
    /\ received = deplen
    /\ instpc' = IF instError THEN "exited" ELSE "install"
    /\ UNCHANGED <<wppv, flagNoExecute, cwd, done, result, co, coError, copc, deppc, received, instError, goInstall, failed>>

\* "go install" of the package and the return of main, lines 209-216
MainInstall(ok) ==
    /\ instpc = "install"
    /\ goInstall' = IF flagNoExecute THEN "skipped" ELSE IF ok THEN "ok" ELSE "failed"
    /\ instpc' = "exited"
    /\ UNCHANGED <<wppv, flagNoExecute, cwd, done, result, co, coError, copc, deppc, received, instError, failed>>

InstInit ==
    /\ WppInit
    /\ cfg = <<TRUE, DevportDefault, TRUE, "skip">>
    /\ \E n \in BOOLEAN : InstallerStart(n)

InstNext ==
    \/ \E d \in Deps, ok \in BOOLEAN : DepClone(d, ok)
    \/ \E d \in Deps : Handoff(d)
    \/ \E ok \in BOOLEAN : CoChdir(ok)
    \/ \E ok \in BOOLEAN : CoCheckout(ok)
    \/ \E ok \in BOOLEAN : CoBuild(ok)
    \/ \E ok \in BOOLEAN : CoChdirBack(ok)
    \/ CoReply
    \/ \E d \in Deps : DepResult(d)
    \/ MainReceive
    \/ MainCheck
    \/ \E ok \in BOOLEAN : MainInstall(ok)

InstSpec == InstInit /\ [][InstNext]_vars

\* every goroutine that can take a step is scheduled in the end
FairInstSpec == InstSpec /\ WF_vars(InstNext)

\* ------------------------------------------------------------- claims
\* steps of the loop, as the properties below name them
Dispatches == dispatched' # dispatched
ReceivesCompletion == completions' # completions /\ \E b \in BuildIds : LoopReady(b)
ReceivesRelevantChange ==
    /\ batches' # batches
    /\ \/ LoopTmplUpdate
       \/ \E us \in Batches : FoldPending(FALSE, us, OptIgnore) /\ LoopUpdates(us)

C2_ChangeDuringBuildFollowedUp ==
    /\ [](changesSince > 0 => pending /\ ~isReady)
    /\ [][ReceivesCompletion /\ pending =>
            /\ dispatched' = dispatched + 1
            /\ Unsignalled' = {dispatched'}
            /\ builds'[dispatched'].kind \in {"follow1", "followMany"}
            /\ ~pending']_vars

C2_Witness == \E b \in BuildIds : builds[b].kind = "follow1"

\* C3: two or more relevant changes received during one build lead to exactly
\* one dispatch, made by the iteration that receives that build's completion;
\* nothing stays pending after it, and pending is only ever true for a change
\* received since the last dispatch, so no build is dispatched without one.
C3_BurstCollapsesIntoOneBuild ==
    /\ [][ReceivesCompletion /\ changesSince >= 2 =>
            /\ dispatched' = dispatched + 1
            /\ Unsignalled' = {dispatched'}
            /\ changesSince' = 0
            /\ ~pending']_vars
    /\ [](pending => changesSince > 0)
    /\ [](\A b \in BuildIds : builds[b].kind # "spurious")

C3_Witness == \E b \in BuildIds : builds[b].kind = "followMany"

\* C4: builds dispatched never exceed the stimuli received, and the iteration
\* that receives a relevant change while no build is in flight dispatches
\* exactly one build and leaves nothing pending.
C4_DispatchPerStimulus ==
    /\ [](dispatched <= stimuli)
    /\ [][isReady /\ ReceivesRelevantChange =>
            /\ dispatched' = dispatched + 1
            /\ builds'[dispatched'].kind = "idle"
            /\ ~isReady'
            /\ ~pending']_vars

C4_Witness == completions >= 1 /\ \E b \in BuildIds : builds[b].kind = "idle"

\* C5: every dispatched build is either still on its way to its send on ready
\* or has had exactly one completion received, whatever step failed; and while
\* the loop runs, the completions received catch up with the builds dispatched
\* again and again (the edits are finitely many), so no build is left without
\* its completion.
C5_CompletionAlwaysSent ==
    /\ [](completions + Cardinality(Unsignalled) = dispatched)
    /\ []<>(completions = dispatched \/ mainpc = "exited")

\* the first build of a serving configuration failed (served is still false)
\* and the loop is ready again
C5_Witness == BuildPort > 0 /\ completions = 1 /\ dispatched = 1 /\ ~served /\ isReady

\* C6, as stated: after a build that failed in preprocess before writing
\* anything, the outfile holds the bytes it held when the build was dispatched.
C6_FailedBuildKeepsArtifact ==
    \A b \in BuildIds :
        (builds[b].pc = "send" /\ builds[b].err /\ builds[b].sync
            /\ builds[b].wrote = 0 /\ builds[b].prev # <<>>)
        => file = builds[b].prev

\* C7, as stated: the index handler never serves a partially written artifact:
\* whenever it can answer, the bytes it sends are a whole render.
C7_ReaderSeesWholeRender == ENABLED IndexServe => Served(file) # "partial"

\* C8, as stated: the loop has not exited while a build's completion is still
\* to be received.
C8_ExitWaitsForBuild == mainpc = "exited" => Unsignalled = {}

\* C9: once the interrupt has been observed, interrupted stays true, nothing is
\* dispatched and no change batch or completion is processed; the iteration
\* that observes it dispatches nothing either.
C9_InterruptIsFinal ==
    /\ [][interrupted =>
            /\ interrupted'
            /\ UNCHANGED <<isReady, pending, html, dispatched, batches, completions>>]_vars
    /\ [][interrupted' /\ ~interrupted => dispatched' = dispatched /\ mainpc' = "exited"]_vars

\* the interrupt was observed with a change pending, a batch waiting and a
\* build blocked in its send
C9_Witness ==
    interrupted /\ pending /\ srcAvail /\ \E b \in BuildIds : builds[b].pc = "killed"

\* C10, as stated: when the process has exited, no viewer connection is left
\* that the program did not close.
C10_ExitClosesViewer == mainpc = "exited" => \A c \in ConnIds : conns[c] # "open"

\* the step in which build b, after a successful preprocess, passes lines
\* 225-257 and goes on to its send on ready
Posts(b) == builds[b].pc = "post" /\ builds'[b].pc = "send"

\* C11, as stated: a successful build that completes in serving mode while a
\* viewer connection is open writes exactly one "reload" to it, and a failed
\* build writes none.
C11_OneReloadPerSuccessfulBuild ==
    /\ [](\A b \in BuildIds : builds[b].err => builds[b].reload = "none")
    /\ [][\A b \in BuildIds :
            (Posts(b) /\ BuildPort > 0 /\ OpenConns # {})
                => builds'[b].reload \in {"sent", "werr"}]_vars

\* C12, as stated: no build writes "reload" to a connection whose handler has
\* ended on a close error.
C12_NoWriteAfterDisconnect == \A b \in BuildIds : builds[b].reload # "wclosed"

\* C13, as stated: the step in which a "reload" write fails leaves no
\* connection installed, and the build goes on to its send on ready without
\* being failed.
C13_WriteFailureDiscards ==
    [][\A b \in BuildIds :
            (Posts(b) /\ builds'[b].reload \in {"werr", "wclosed"})
                => ProgWebSocket' = 0 /\ ~builds'[b].err]_vars

\* C14, as stated: at most one viewer connection is open at any time, and a
\* failed upgrade leaves the installed reference as it was.
C14_OneViewerConnection ==
    /\ [](Cardinality(OpenConns) <= 1)
    /\ [][ReloadUpgrade(FALSE) => ProgWebSocket' = ProgWebSocket]_vars

\* C15: a source batch leaves pending true exactly when pending was true or
\* the batch holds an event that is no directory, no removal, has a name the
\* compiled exclusion pattern does not match and an extension that is .js or
\* .css in lower case; the iteration that receives it either keeps that value
\* or dispatches on it.  A template batch always sets pending.  (The options
\* never change, so the fold is compared for the options of the first state.)
EventIsRelevant(u, o) ==
    /\ u.name # "sub"
    /\ ~u.WasRemoved
    /\ ~(o = "skip" /\ u.name = "skip.css")
    /\ u.name \in {"a.css", "b.JS", "skip.css"}
BatchIsRelevant(us, o) == \E k \in 1..Len(us) : EventIsRelevant(us[k], o)

C16_FailedReloadKeepsTemplate ==
    [][(batches' # batches /\ LoopTmplUpdate /\ OptTemplate /\ loadHtml(tmplFile).err)
            => html' = html /\ mainpc' = "loop"]_vars

\* C17: entering the loop drops the first source batch without setting
\* pending or dispatching, and leaves a batch on tmplUpdate; until the first
\* dispatch that batch is waiting, the iteration that receives it with nothing
\* dispatched yet dispatches the first build, and while the loop runs a first
\* build is dispatched whether or not the source tree changes.  Without a
\* template file the channel never holds a batch again.
C17_InitialBuild ==
    /\ [][mainpc = "start" /\ mainpc' = "loop" =>
            /\ srcAvail /\ ~srcAvail' /\ tmplAvail'
            /\ ~pending' /\ isReady' /\ dispatched' = 0 /\ batches' = 0]_vars
    /\ [](mainpc = "loop" /\ dispatched = 0 => tmplAvail /\ isReady /\ ~pending)
    /\ [][batches' # batches /\ LoopTmplUpdate /\ dispatched = 0 => dispatched' = 1]_vars
    /\ [][~OptTemplate /\ mainpc = "loop" /\ ~tmplAvail => ~tmplAvail']_vars
    /\ (dispatched = 0) ~> (dispatched >= 1 \/ mainpc = "exited")

\* without a template file and without any edit, the first build was
\* dispatched and has completed, and tmplUpdate is empty
C17_Witness ==
    /\ ~OptTemplate /\ edits = 0 /\ batches = 1 /\ ~tmplAvail
    /\ dispatched = 1 /\ completions = 1 /\ mainpc = "loop"

\* C18, as stated: with devport 0 or no outfile the HTTP server is never
\* started, no "reload" is written, and what a successful build renders has
\* been written to standard output.
C18_NotServingDumpsToStdout ==
    BuildPort = 0 =>
        /\ ~served /\ ~httpUp /\ handshakes = 0
        /\ \A b \in BuildIds : builds[b].reload = "none"
        /\ \A b \in BuildIds :
              (builds[b].pc = "send" /\ ~builds[b].err /\ builds[b].wrote > 0) => stdout

\* C19: isReady /\ pending /\ ~interrupted holds in no state an iteration
\* leaves; a step dispatches exactly when the iteration's select case left
\* isReady and pending true and interrupted false, it dispatches one build and
\* leaves isReady and pending false; and isReady and pending change only in
\* steps of the loop (those that receive a batch or a completion).
C19_TickInvariant ==
    /\ [](~(isReady /\ pending /\ ~interrupted))
    /\ [][Dispatches <=>
            /\ isReady \/ ReceivesCompletion
            /\ pending \/ ReceivesRelevantChange
            /\ ~interrupted']_vars
    /\ [][Dispatches =>
            /\ dispatched' = dispatched + 1
            /\ builds[dispatched'].pc = "none" /\ builds'[dispatched'].pc \in {"truncate", "preprocess"}
            /\ ~isReady' /\ ~pending']_vars
    /\ [][(isReady' # isReady \/ pending' # pending)
            => (batches' # batches \/ completions' # completions)]_vars

\* a build dispatched by the tick of an iteration that received a change has
\* not taken its first step yet
C19_Witness ==
    /\ mainpc = "loop" /\ ~isReady /\ ~pending /\ dispatched >= 2
    /\ builds[dispatched].kind = "idle" /\ builds[dispatched].pc \in {"truncate", "preprocess"}

\* C20: in the dependency installer the step between a dependency's send on
\* checkout and the reply on its result channel is under way for at most one
\* dependency at a time, it is the dependency the checkout goroutine holds, the
\* working directory differs from the original one only inside that step, and
\* it is the original directory whenever a step begins.
InStep(d) == deppc[d] = "result" /\ result[d] = <<>>
C20_OneCheckoutAtATime ==
    /\ [](Cardinality({d \in Deps : InStep(d)}) <= 1)
    /\ [](\A d \in Deps : InStep(d) <=> co = d)
    /\ [](cwd # Pwd => co # 0 /\ cwd = Dir(co) /\ copc \in {"checkout", "build", "chdirback"})
    /\ [](copc \in {"range", "chdir"} => cwd = Pwd)
    /\ [][\A d \in Deps : Handoff(d) => cwd = Pwd /\ cwd' = Pwd]_vars

\* a dependency's step has ended without an error and its result is not yet
\* received while the step of the next dependency begins
C20_Witness ==
    /\ instpc = "receive" /\ co # 0 /\ copc = "chdir" /\ cwd = Pwd
    /\ \E e \in Deps : e # co /\ deppc[e] = "result" /\ result[e] = <<FALSE>>

\* C21: in the dependency installer a dependency goroutine sends on done once,
\* in the step in which it returns, and the value says whether a step failed for
\* it (clone, chdir, checkout or build); while the process runs some goroutine
\* can take a step, main's receive loop ends and the process exits; and the
\* final "go install" is reached only after len(dependencies) receives with no
\* failed dependency.
Returned == {d \in Deps : deppc[d] = "returned"}
C21_DoneSentOncePerDependency ==
    /\ [](received + Len(done) = Cardinality(Returned))
    /\ [][\A d \in Deps : deppc[d] = "returned" => deppc'[d] = "returned"]_vars
    /\ [][\A d \in Deps : (deppc[d] # "returned" /\ deppc'[d] = "returned")
            => done' = Append(done, d \in failed')]_vars
    /\ [](InstRunning => ENABLED InstNext)
    /\ [](received = deplen => Returned = Deps /\ (instError <=> failed # {}))
    /\ [](instpc = "install" \/ goInstall # "none"
            => received = deplen /\ ~instError /\ failed = {})
    /\ <>(instpc = "exited")

\* main has received a value of a dependency that failed and one of a
\* dependency that did not, and has left without the final "go install"
C21_Witness ==
    /\ instpc = "exited" /\ received = deplen /\ goInstall = "none"
    /\ failed # {} /\ failed # Deps /\ cwd = Pwd

\* C22: served never goes back to false; it and the HTTP server change only in
\* the step of a build that has preprocessed without error in serving mode and
\* found served false, and every such build sets served and writes no reload; a
\* build that finds served true starts nothing; a failing step of a build
\* leaves served as it was; a build that has succeeded in serving mode and
\* written no reload is the one that started the server.
C22_ServedOnce ==
    /\ [][served => served']_vars
    /\ [][(served' # served \/ httpUp' # httpUp)
            => ~served /\ BuildPort > 0 /\ \E b \in BuildIds : Posts(b) /\ ~builds'[b].err]_vars
    /\ [][\A b \in BuildIds : (Posts(b) /\ BuildPort > 0 /\ ~served)
            => served' /\ builds'[b].reload = "none" /\ ProgWebSocket' = ProgWebSocket]_vars
    /\ [][\A b \in BuildIds : (Posts(b) /\ served)
            => httpUp' = httpUp /\ builds'[b].reload # "none"]_vars
    /\ [][\A b \in BuildIds : (~builds[b].err /\ builds'[b].err) => served' = served]_vars
    /\ [](\A b \in BuildIds : (BuildPort > 0 /\ builds[b].pc = "send" /\ ~builds[b].err) => served)
    /\ [](httpUp => served)
    /\ [](served => BuildPort > 0)

\* the first build has failed and has left served false, and the second build
\* has done the start-up and has written no reload
C22_Witness ==
    /\ BuildPort > 0 /\ served /\ dispatched = 2 /\ completions = 1
    /\ builds[2].pc = "send" /\ ~builds[2].err /\ builds[2].reload = "none"

\* C23, as stated: a build whose preprocess call succeeds renders the text html
\* holds at that call, so a reload the loop handled while the build was in
\* flight is rendered by it; that reload leaves pending true and dispatches
\* nothing while the build is in flight; and the text a build renders is the
\* one html held at its dispatch or one loaded later.
Preprocessed(b) == builds[b].pc = "preprocess" /\ builds'[b].pc \in {"post", "write"}
C23_InFlightBuildRendersReload ==
    /\ [][\A b \in BuildIds : Preprocessed(b) => builds'[b].tmpl = html]_vars
    /\ [][(batches' # batches /\ ~isReady /\ LoopTmplUpdate) => pending' /\ ~Dispatches]_vars
    /\ [][\A b \in BuildIds : Preprocessed(b) => builds'[b].tmpl \in builds[b].old \cup {html}]_vars

====
